---------------------------- MODULE Spec2Model ----------------------------
(***************************************************************************)
(* Model of iytdl's upload library: Uploader.find_media, split_video,      *)
(* unquote_filename and Uploader.upload with its video and audio paths.    *)
(*                                                                         *)
(* Characters are their code points, so that comparing names compares      *)
(* what Python's string comparison compares.  A byte size is the pair      *)
(* <<whole MiB, remaining bytes>>: the sizes the thresholds are about      *)
(* (2 147 000 000 and 2 * 1.5 GiB) exceed the checker's integers, and      *)
(* every comparison and division below is exact on the pair.               *)
(***************************************************************************)
EXTENDS Integers, Sequences, FiniteSets, TLC

(***************************************************************************)
(* Program constants.                                                      *)
(***************************************************************************)
\* split_size = 1.5 * 1024 * 1024 * 1024, in MiB
SplitSizeMiB == 1536
\* 2147000000 = LimitMiB * 1048576 + LimitRem
LimitMiB == 2047
LimitRem == 564928
\* str(start).zfill(3)
ZFill == 3
\* len(child_up) == 10
BatchSize == 10

(***************************************************************************)
(* Bounds of the model.                                                    *)
(***************************************************************************)
\* entries in a job directory
MaxFiles == 2
\* the largest part count of a video of the general specification
MaxParts == 21
\* the part count of the very large video of SpecBig
BigParts == 1000
\* the transcoder and the prober may misbehave on ordinals up to this one
MaxFaultOrdinal == 2
\* a send may return no message for parts up to this position
MaxNoneSend == 1
\* the probed duration of a part is at most this many seconds
MaxDur == 2

Only(T) == CHOOSE v \in T : TRUE

(***************************************************************************)
(* Sizes.                                                                  *)
(***************************************************************************)
SplitSize == <<SplitSizeMiB, 0>>
DiscoveryLimit == <<LimitMiB, LimitRem>>

SizeGT(a, b) == a[1] > b[1] \/ (a[1] = b[1] /\ a[2] > b[2])
SizeLE(a, b) == ~SizeGT(a, b)

\* k * split_size, and one byte more
Times(k) == <<k * SplitSizeMiB, 0>>
Plus1(s) == <<s[1], s[2] + 1>>

\* ceil(file.stat().st_size / split_size)
PartsCount(size) ==
    (size[1] \div SplitSizeMiB)
      + (IF size[1] % SplitSizeMiB # 0 \/ size[2] # 0 THEN 1 ELSE 0)

(***************************************************************************)
(* Names.                                                                  *)
(***************************************************************************)
QuoteChars == {34, 39}

\* re.sub(r"[\"']", "", file.name)
StripQuotes(s) == SelectSeq(s, LAMBDA c : c \notin QuoteChars)

RECURSIVE DigitsOf(_)
DigitsOf(n) ==
    IF n < 10 THEN <<48 + n>> ELSE Append(DigitsOf(n \div 10), 48 + (n % 10))

RECURSIVE ZFillTo(_, _)
ZFillTo(s, w) == IF Len(s) >= w THEN s ELSE ZFillTo(<<48>> \o s, w)

\* The part of "{name}.part{no}{ext}" that differs between the parts of one
\* video: str(start).zfill(3) followed by the "." that starts the suffix.
PartKeyUnpadded(no) == DigitsOf(no) \o <<46>>
PartKey(no) == ZFillTo(DigitsOf(no), ZFill) \o <<46>>

\* Python's str.__lt__: the first differing code point decides, a proper
\* prefix is smaller.
LexLess(a, b) ==
    \/ \E i \in 1..Len(a) :
         /\ i <= Len(b)
         /\ a[i] < b[i]
         /\ \A j \in 1..(i - 1) : a[j] = b[j]
    \/ /\ Len(a) < Len(b)
       /\ \A j \in 1..Len(a) : a[j] = b[j]

Ranks(S, key) == [o \in S |-> Cardinality({p \in S : LexLess(key[p], key[o])})]
ByRank(S, r) == [i \in 1..Cardinality(S) |-> CHOOSE o \in S : r[o] = i - 1]

\* sorted(result): the parts (named by ordinal) in the order of their names
SortedByName(S) ==
    Only({ByRank(S, r) : r \in {Ranks(S, key) : key \in {[o \in S |-> PartKey(o)]}}})

Range(s) == {s[i] : i \in 1..Len(s)}

\* ext.video, ext.audio, ext.photo and ext.photo[:2]
ExtOf(kind) ==
    CASE kind = "video" -> {"mkv"}
      [] kind = "audio" -> {"mp3"}
      [] kind = "photo" -> {"jpg", "jpeg", "png"}
      [] OTHER -> {}
JpegExts == {"jpg", "jpeg"}


(***************************************************************************)
(* Dictionaries (info_dict, mkwargs): functions from the keys present.     *)
(***************************************************************************)
Has(d, k) == k \in DOMAIN d
Put(d, k, v) == [x \in (DOMAIN d) \cup {k} |-> IF x = k THEN v ELSE d[x]]
Drop(d, k) == [x \in (DOMAIN d) \ {k} |-> d[x]]
EmptyDict == [x \in {} |-> 0]

(***************************************************************************)
(* The job directory.  A file is a record; its name is stem + "." + ext.   *)
(*   meta: what extractMetadata finds in it ("none": no metadata object,   *)
(*         "bare": metadata with no duration, artist or title,             *)
(*         "nodur": metadata without a duration, "full")                   *)
(*   img:  whether PIL can open it as an image                             *)
(***************************************************************************)
File(stem, ext, size, meta, img) ==
    [stem |-> stem, ext |-> ext, size |-> size, meta |-> meta, img |-> img]
NameOf(f) == [stem |-> f.stem, ext |-> f.ext]
Lookup(fs, nm) == CHOOSE f \in fs : NameOf(f) = nm

StemA == <<97>>
StemAq == <<97, 39>>
StemB == <<98>>
StemC == <<99>>
PhotoDims == <<320, 180>>
DefaultDims == <<1280, 720>>

\* video sizes around the two thresholds, and sizes of given part counts
SizesFor(parts) ==
    {<<0, 0>>, <<1, 0>>,
     SplitSize, Plus1(SplitSize),
     DiscoveryLimit, Plus1(DiscoveryLimit),
     Times(2), Plus1(Times(2))}
      \cup {Times(k) : k \in parts} \cup {Plus1(Times(k - 1)) : k \in parts}

Videos(parts) == {File(StemA, "mkv", sz, "full", FALSE) : sz \in SizesFor(parts)}

\* what may lie beside a video of one of these sizes
Companions ==
    {File(StemC, "jpg", <<1, 0>>, "none", TRUE),
     File(StemB, "mkv", <<1, 0>>, "none", FALSE),
     File(StemAq, "mkv", <<1, 0>>, "nodur", FALSE)}

SmallFiles ==
    Companions
      \cup {File(StemA, "mp3", <<1, 0>>, "full", FALSE),
            File(StemAq, "mp3", <<1, 0>>, "none", FALSE),
            File(StemB, "mp3", <<0, 0>>, "full", FALSE),
            File(StemC, "mp3", <<1, 0>>, "bare", FALSE),
            File(StemC, "png", <<1, 0>>, "none", TRUE),
            File(StemB, "png", <<1, 0>>, "none", FALSE),
            File(StemC, "txt", <<1, 0>>, "none", FALSE)}

\* the listings of a directory: its files in any iteration order
SeqsUpTo(cat, n) ==
    {l \in UNION {[1..k -> cat] : k \in 0..n} :
        \A i, j \in 1..Len(l) : i # j => NameOf(l[i]) # NameOf(l[j])}

Listings(parts) ==
    SeqsUpTo(SmallFiles, MaxFiles)
      \cup {<<v>> : v \in Videos(parts)}
      \cup {<<v, c>> : v \in Videos(parts), c \in Companions}
      \cup {<<c, v>> : v \in Videos(parts), c \in Companions}

(***************************************************************************)
(* unquote_filename: the name it returns and the directory it leaves.      *)
(***************************************************************************)
Unquoted(nm) == [stem |-> StripQuotes(nm.stem), ext |-> nm.ext]

\* file.rename(un_quoted): the file takes the new name, replacing a file
\* that has it
Renamed(fs, nm) ==
    IF Unquoted(nm) = nm THEN fs
    ELSE {f \in fs : NameOf(f) \notin {nm, Unquoted(nm)}}
           \cup {[Lookup(fs, nm) EXCEPT !.stem = StripQuotes(nm.stem)]}

(***************************************************************************)
(* State.                                                                  *)
(***************************************************************************)
VARIABLES
    \* inputs of upload(key, downtype) and the Uploader's settings
    media_type, delete_file_after_upload,
    \* the environment: the last ordinal on which the transcoder and the
    \* prober may misbehave (0: they never do, and every send that returns
    \* returns a message)
    flaky,
    \* the job directory: whether it exists, its files, and the listing
    \* iterdir() took of it
    dir_exists, files, listing,
    \* find_media: position in the listing, the loop's `file`, info_dict
    idx, file, info,
    \* split_video: start, cur_duration, result, and what each iteration did
    start, cur_duration, result, attempts,
    \* upload: the Process's flag and the value line 310 / 361 read of it
    is_cancelled, seen_cancel,
    \* upload: nums, the sends issued and in flight, and `uploaded`
    nums, issued, inflight, uploaded,
    \* what was done to the status message, the batches still to reply
    \* (`uploads`), the batches replied, new_caption
    edits, uploads, replies, new_caption,
    \* control: where the invocation is, how it ended, whether rmtree ran
    pc, exc, rmtree_done,
    \* unquote_filename called on its own: the path given, the names in that
    \* path's directory, the paths returned, the file.rename calls made
    filename, dir_names, returned, renames

vars == <<media_type, delete_file_after_upload, flaky, dir_exists, files, listing,
          idx, file, info, start, cur_duration, result, attempts,
          is_cancelled, seen_cancel, nums, issued, inflight, uploaded,
          edits, uploads, replies, new_caption, pc, exc,
          rmtree_done, filename, dir_names, returned, renames>>

inputVars == <<media_type, delete_file_after_upload, flaky, listing>>
dirVars == <<dir_exists, files>>
scanVars == <<idx, file, info>>
splitVars == <<start, cur_duration, result, attempts>>
sendVars == <<nums, issued, inflight, uploaded>>
msgVars == <<edits, uploads, replies, new_caption>>
cancelVars == <<is_cancelled, seen_cancel>>
nameVars == <<filename, dir_names, returned, renames>>

NoFile == [stem |-> <<>>, ext |-> ""]
NoPath == [parent |-> <<>>, name |-> <<>>]

InitWith(kinds, dels, ls, fl) ==
    /\ filename = NoPath /\ dir_names = {} /\ returned = <<>> /\ renames = <<>>
    /\ media_type \in kinds
    /\ delete_file_after_upload \in dels
    /\ flaky = fl
    /\ dir_exists \in BOOLEAN
    /\ listing \in (IF dir_exists THEN ls ELSE {<<>>})
    /\ files = Range(listing)
    /\ idx = 0 /\ file = NoFile /\ info = EmptyDict
    /\ start = 0 /\ cur_duration = 0 /\ result = <<>> /\ attempts = <<>>
    /\ is_cancelled = FALSE /\ seen_cancel = "unread"
    /\ nums = 0 /\ issued = <<>> /\ inflight = {} /\ uploaded = <<>>
    /\ edits = <<>> /\ uploads = <<>> /\ replies = <<>> /\ new_caption = <<>>
    /\ pc = "find_media" /\ exc = "none" /\ rmtree_done = FALSE

\* an exception leaves find_media (and upload, which calls it before its try)
Raise(e) == pc' = "done" /\ exc' = e

(***************************************************************************)
(* find_media                                                              *)
(***************************************************************************)
\* info_dict.get(media_type) is truthy: a path, or a non-empty list of parts
MediaTruthy(d, mt) == Has(d, mt) /\ (d["is_split"] => d[mt] # <<>>)

\* lines 54-59: the two preconditions, then the scan begins
FindMediaEnter ==
    /\ pc = "find_media"
    /\ IF media_type \notin {"video", "audio"} THEN Raise("TypeError")
       ELSE IF ~dir_exists THEN Raise("FileNotFoundError")
       ELSE /\ pc' = IF listing = <<>> THEN "enrich" ELSE "scan"
            /\ exc' = exc
    /\ idx' = 1
    /\ UNCHANGED <<inputVars, nameVars, dirVars, file, info, splitVars, cancelVars,
                   sendVars, msgVars, rmtree_done>>

\* line 69: file.stat().st_size > 2147000000 and media_type == "video"
MustSplitFrom(size, mt) == ~SizeGT(DiscoveryLimit, size) /\ mt = "video"
MustSplit(size, mt) == SizeGT(size, DiscoveryLimit) /\ mt = "video"

\* lines 61-64: the entry is taken as the media file
IsMedia(f, d, mt) ==
    /\ ~MediaTruthy(d, mt)
    /\ f.ext \in ExtOf(mt)
    /\ f.size # <<0, 0>>

\* lines 60-83, up to the call of split_video
ScanMedia ==
    /\ pc = "scan"
    /\ LET nm == NameOf(listing[idx])
           f == Lookup(files, nm)
           un == Unquoted(nm)
       IN IF IsMedia(f, info, media_type)
          THEN /\ files' = Renamed(files, nm)
               /\ file' = un
               /\ IF MustSplit(f.size, media_type)
                  THEN /\ info' = Put(info, "real_file", un)
                       /\ pc' = "split"
                       /\ start' = 1 /\ cur_duration' = 0
                       /\ result' = <<>> /\ attempts' = <<>>
                  ELSE /\ info' = Put(Put(Put(Put(info, "real_file", un),
                                     "file_name", un), "is_split", FALSE),
                                     media_type, un)
                       /\ pc' = "thumb"
                       /\ UNCHANGED splitVars
          ELSE /\ file' = nm
               /\ pc' = "thumb"
               /\ UNCHANGED <<files, info, splitVars>>
    /\ UNCHANGED <<inputVars, nameVars, dir_exists, idx, cancelVars, sendVars, msgVars,
                   exc, rmtree_done>>

(***************************************************************************)
(* split_video                                                             *)
(***************************************************************************)
\* What the transcoder and the prober can do for one part: the exit code,
\* whether the output file exists, and the duration get_duration reports
\* (0 when the probe fails, as it does for a missing file).
Outcomes(no) ==
    IF no <= flaky
    THEN {[rc |-> rc, exists |-> ex, dur |-> d] :
             rc \in {0, 1}, ex \in BOOLEAN, d \in 0..MaxDur}
           \ {[rc |-> rc, exists |-> FALSE, dur |-> d] :
                 rc \in {0, 1}, d \in 1..MaxDur}
    ELSE {[rc |-> 0, exists |-> TRUE, dur |-> 1]}

\* line 176: rt_code == 0 and new_file.is_file()
PartOkOnExit(o) == o.rc = 0
PartOk(o) == o.rc = 0 /\ o.exists

\* line 179: cur_duration += new_duration
NextOffset(cur, o) == cur + o.dur

\* lines 154-181: one iteration of the loop
SplitStep ==
    /\ pc = "split"
    /\ start <= PartsCount(Lookup(files, file).size)
    /\ \E o \in Outcomes(start) :
         /\ result' = IF PartOk(o) THEN Append(result, start) ELSE result
         /\ attempts' = Append(attempts,
                [no |-> start, ss |-> cur_duration, rc |-> o.rc,
                 exists |-> o.exists, dur |-> o.dur])
         /\ cur_duration' = NextOffset(cur_duration, o)
    /\ start' = start + 1
    /\ UNCHANGED <<inputVars, nameVars, dirVars, scanVars, cancelVars, sendVars,
                   msgVars, pc, exc, rmtree_done>>

\* line 183: return sorted(result)
SplitResult(res) == SortedByName(Range(res))

\* lines 75-77: sorted([os.path.basename(f.absolute()) for f in f_path])
BaseNames(f_path) == SortedByName(Range(f_path))

\* lines 182-183 of split_video, then lines 75-83 of find_media
SplitReturn ==
    /\ pc = "split"
    /\ start > PartsCount(Lookup(files, file).size)
    /\ \E f_path \in {SplitResult(result)} :
         info' = Put(Put(Put(info, "file_name", BaseNames(f_path)),
                         "is_split", TRUE), media_type, f_path)
    /\ pc' = "thumb"
    /\ start' = 0 /\ cur_duration' = 0 /\ result' = <<>> /\ attempts' = <<>>
    /\ UNCHANGED <<inputVars, nameVars, dirVars, idx, file, cancelVars, sendVars,
                   msgVars, exc, rmtree_done>>


(***************************************************************************)
(* find_media, after the media test: the thumbnail, the break, the return  *)
(***************************************************************************)
\* covert_to_jpg: the path it returns; a non-JPEG image is saved again as
\* <stem>.jpeg beside it
JpgPath(nm) == IF nm.ext \in JpegExts THEN nm ELSE [stem |-> nm.stem, ext |-> "jpeg"]
JpgSaved(fs, nm) ==
    IF nm.ext \in JpegExts THEN fs
    ELSE {f \in fs : NameOf(f) # JpgPath(nm)}
           \cup {File(nm.stem, "jpeg", <<1, 0>>, "none", TRUE)}

\* info_dict.get("thumb") is truthy
ThumbTruthy(d) == Has(d, "thumb") /\ d["thumb"] # NoFile

\* line 90: media_type in info_dict and "thumb" in info_dict
ScanBreaks(d, mt) == Has(d, mt) /\ Has(d, "thumb")

\* lines 85-91, and the loop's advance
ScanThumb ==
    /\ pc = "thumb"
    /\ IF ~ThumbTruthy(info) /\ file.ext \in ExtOf("photo")
       THEN IF Lookup(files, file).img
            THEN /\ info' = Put(Put(info, "thumb", JpgPath(file)), "size", PhotoDims)
                 /\ files' = JpgSaved(files, file)
                 /\ pc' = IF ScanBreaks(info', media_type) \/ idx = Len(listing)
                          THEN "enrich" ELSE "scan"
                 /\ exc' = exc
            ELSE \* Image.open raises
                 /\ Raise("UnidentifiedImageError")
                 /\ UNCHANGED <<files, info>>
       ELSE /\ pc' = IF ScanBreaks(info, media_type) \/ idx = Len(listing)
                     THEN "enrich" ELSE "scan"
            /\ UNCHANGED <<files, info, exc>>
    /\ idx' = idx + 1
    /\ UNCHANGED <<inputVars, nameVars, dir_exists, file, splitVars, cancelVars,
                   sendVars, msgVars, rmtree_done>>

AlbumArt == [stem |-> <<97, 114, 116>>, ext |-> "jpg"]

\* lines 94-96: the duration, named by the file it was read from: the
\* file `media` (real_file) as a whole, part 0, not one of its parts
DurationOf(f) == [of |-> NameOf(f), part |-> 0]
WithDuration(d, f) ==
    IF f.meta = "full" THEN Put(d, "duration", DurationOf(f)) ELSE d
\* lines 99-103: metadata.has("artist"), metadata.has("title")
HasTags(f) == f.meta \in {"full", "nodur"}
WithTagsKeepingSize(d, f) ==
    IF HasTags(f) THEN Put(Put(d, "performer", NameOf(f)), "title", NameOf(f))
    ELSE d
WithTags(d, f) ==
    IF HasTags(f)
    THEN Put(Put(Drop(d, "size"), "performer", NameOf(f)), "title", NameOf(f))
    ELSE Drop(d, "size")
\* lines 108-110
WithDims(d) ==
    LET sz == IF Has(d, "size") THEN d["size"] ELSE DefaultDims
    IN Put(Put(Drop(d, "size"), "height", sz[2]), "width", sz[1])

\* lines 93-111: pop real_file, read the metadata, return the descriptor.
\* upload (lines 177-181) then builds the Process and enters its try.
FindMediaReturn ==
    /\ pc = "enrich"
    /\ IF ~Has(info, "real_file")
       THEN \* info_dict.pop("real_file") with no default
            /\ Raise("KeyError")
            /\ UNCHANGED <<files, info>>
       ELSE LET f == Lookup(files, info["real_file"])
                d == WithDuration(Drop(info, "real_file"), f)
            IN IF media_type = "audio"
               THEN IF f.meta = "none"
                    THEN \* metadata is None: metadata.has raises
                         /\ Raise("AttributeError")
                         /\ UNCHANGED <<files, info>>
                    ELSE IF ThumbTruthy(d)
                    THEN /\ info' = WithTags(d, f)
                         /\ pc' = "upload" /\ UNCHANGED <<files, exc>>
                    ELSE \* thumb_from_audio: album art, none, or it raises
                         \/ /\ info' = Put(WithTags(d, f), "thumb", AlbumArt)
                            /\ files' = {g \in files : NameOf(g) # AlbumArt}
                                 \cup {File(AlbumArt.stem, "jpg", <<1, 0>>, "none", TRUE)}
                            /\ pc' = "upload" /\ exc' = exc
                         \/ /\ info' = Put(WithTags(d, f), "thumb", NoFile)
                            /\ pc' = "upload" /\ UNCHANGED <<files, exc>>
                         \/ /\ Raise("UnidentifiedImageError")
                            /\ UNCHANGED <<files, info>>
               ELSE /\ info' = WithDims(d)
                    /\ pc' = "upload" /\ UNCHANGED <<files, exc>>
    /\ UNCHANGED <<inputVars, nameVars, dir_exists, idx, file, splitVars, cancelVars,
                   sendVars, msgVars, rmtree_done>>

(***************************************************************************)
(* upload, __upload_video and __upload_audio                               *)
(***************************************************************************)
IsSplit == info["is_split"]
\* the parts to send, in the descriptor's order; an unsplit item is part 0
NParts == IF IsSplit THEN Len(info[media_type]) ELSE 1
PartAt(k) == IF IsSplit THEN info[media_type][k] ELSE 0

\* what was done to the status message: process.edit(text), and
\* process.edit_media(media, reply_markup=None)
TextEdit(text) ==
    [op |-> "edit", text |-> text, media |-> "none", reply_markup |-> "kept"]
MediaEdit(media) ==
    [op |-> "edit_media", text |-> <<>>, media |-> media, reply_markup |-> "none"]

\* What a send returned: None (msg FALSE), or a Message that carries the
\* media it was sent as, a document, or neither of the two.
SendResults(fl, n) ==
    IF fl > 0 /\ n <= MaxNoneSend
    THEN {[msg |-> FALSE, kind |-> "none"]}
           \cup {[msg |-> TRUE, kind |-> k] : k \in {"media", "document", "other"}}
    ELSE {[msg |-> TRUE, kind |-> "media"]}

\* lines 300-308: __get_inputs; lines 362-375 for audio
GetInputs(u) ==
    CASE u.kind = "media" -> media_type
      [] u.kind = "document" -> "document"
      [] OTHER -> "none"

\* lines 311-314: a video is edited with whatever __get_inputs returned;
\* lines 362-375: an audio is edited if it carries an audio or a document
EditsMedia(mt, u) == mt = "video" \/ GetInputs(u) # "none"

\* an exception inside upload's try
RaiseWithoutFinally(e) == pc' = "done" /\ exc' = e
RaiseInTry(e) == pc' = "finally" /\ exc' = e

\* lines 177-183 and 203-206 (video) or 186-187 and 341 (audio)
UploadEnter ==
    /\ pc = "upload"
    /\ IF media_type = "video" /\ IsSplit
       THEN \/ /\ edits' = Append(edits, TextEdit(<<>>))
               /\ pc' = IF NParts = 0 THEN "post" ELSE "send"
               /\ exc' = exc
            \/ /\ RaiseInTry("EditError")
               /\ edits' = edits
       ELSE /\ pc' = "send"
            /\ UNCHANGED <<edits, exc>>
    /\ nums' = 1
    /\ UNCHANGED <<inputVars, nameVars, dirVars, scanVars, splitVars, cancelVars,
                   issued, inflight, uploaded, uploads, replies, new_caption,
                   rmtree_done>>

\* `await`: the next send is issued when the one before it has returned
CanIssueAtOnce(fl) == TRUE
CanIssue(fl) == fl = {}

\* lines 237-267, 271-295, 342-357: the thumbnail, the caption, the call
SendIssue ==
    /\ pc = "send"
    /\ CanIssue(inflight)
    /\ Len(issued) < NParts
    /\ issued' = Append(issued, PartAt(Len(issued) + 1))
    /\ inflight' = inflight \cup {PartAt(Len(issued) + 1)}
    /\ UNCHANGED <<inputVars, nameVars, dirVars, scanVars, splitVars, cancelVars, nums,
                   uploaded, msgVars, pc, exc, rmtree_done>>

\* line 237: the loop ends when zip(videos, videos_name) is exhausted; the
\* flag is not looked at
LoopDoneOrCancelled(u, flag) == Len(u) = NParts \/ flag
LoopDone(u, flag) == Len(u) = NParts

\* lines 219-232 and 255-269, 285, 347: the call returns a message or
\* nothing, or raises
SendReturn ==
    /\ pc = "send"
    /\ \E p \in inflight :
         /\ inflight' = inflight \ {p}
         /\ \/ /\ \E m \in SendResults(flaky, Len(issued)) :
                    uploaded' = Append(uploaded,
                        [part |-> p, msg |-> m.msg, kind |-> m.kind])
               /\ nums' = nums + 1
               /\ pc' = IF LoopDone(uploaded', is_cancelled) THEN "post" ELSE "send"
               /\ exc' = exc
            \/ /\ RaiseInTry("SendError")
               /\ UNCHANGED <<nums, uploaded>>
    /\ UNCHANGED <<inputVars, nameVars, dirVars, scanVars, splitVars, cancelVars,
                   issued, msgVars, rmtree_done>>

\* `not uploaded`: an empty list of results, or no message
NotUploaded(u) == IF IsSplit THEN u = <<>> ELSE ~u[1].msg

\* lines 316-321: child_up is moved to `uploads` each time it reaches 10
Batches(u) ==
    [b \in 1..(Len(u) \div BatchSize) |->
        [i \in 1..BatchSize |-> u[(b - 1) * BatchSize + i].part]]

\* lines 328-330: enumerate(new_msg, start=1)
CaptionLines(batch) == [i \in 1..Len(batch) |-> [i |-> i, name |-> batch[i]]]

\* lines 310 and 361: if not process.is_cancelled
ProceedsAnyway(flag) == TRUE
Proceeds(flag) == ~flag

\* lines 296-321 and 358-361: nothing uploaded, the flag, the grouping
PostSend ==
    /\ pc = "post"
    /\ IF NotUploaded(uploaded)
       THEN /\ pc' = "finally"
            /\ UNCHANGED <<seen_cancel, uploads, exc>>
       ELSE /\ seen_cancel' = IF is_cancelled THEN "true" ELSE "false"
            /\ IF ~Proceeds(is_cancelled)
               THEN pc' = "finally" /\ UNCHANGED <<uploads, exc>>
               ELSE IF ~IsSplit
               THEN /\ pc' = IF EditsMedia(media_type, uploaded[1])
                              THEN "edit_media" ELSE "finally"
                    /\ UNCHANGED <<uploads, exc>>
               ELSE IF \E i \in 1..Len(uploaded) : ~uploaded[i].msg
               THEN \* __get_inputs(None)
                    RaiseInTry("AttributeError") /\ uploads' = uploads
               ELSE /\ uploads' = Batches(uploaded)
                    /\ pc' = "reply" /\ exc' = exc
    /\ UNCHANGED <<inputVars, nameVars, dirVars, scanVars, splitVars, is_cancelled,
                   sendVars, edits, replies, new_caption, rmtree_done>>

\* lines 312-314 and 362-375
EditMedia ==
    /\ pc = "edit_media"
    /\ \/ /\ edits' = Append(edits, MediaEdit(GetInputs(uploaded[1])))
          /\ pc' = "finally" /\ exc' = exc
       \/ RaiseInTry("EditError") /\ edits' = edits
    /\ UNCHANGED <<inputVars, nameVars, dirVars, scanVars, splitVars, cancelVars,
                   sendVars, uploads, replies, new_caption, rmtree_done>>

\* lines 323-330: one batch
ReplyBatch ==
    /\ pc = "reply"
    /\ uploads # <<>>
    /\ \/ /\ replies' = Append(replies, Head(uploads))
          /\ new_caption' = new_caption \o CaptionLines(Head(uploads))
          /\ uploads' = Tail(uploads)
          /\ UNCHANGED <<pc, exc>>
       \/ RaiseInTry("ReplyError") /\ UNCHANGED <<uploads, replies, new_caption>>
    /\ UNCHANGED <<inputVars, nameVars, dirVars, scanVars, splitVars, cancelVars,
                   sendVars, edits, rmtree_done>>

\* line 331
FinalEdit ==
    /\ pc = "reply"
    /\ uploads = <<>>
    /\ \/ /\ edits' = Append(edits, TextEdit(new_caption))
          /\ pc' = "finally" /\ exc' = exc
       \/ RaiseInTry("EditError") /\ edits' = edits
    /\ UNCHANGED <<inputVars, nameVars, dirVars, scanVars, splitVars, cancelVars,
                   sendVars, uploads, replies, new_caption, rmtree_done>>

\* line 191
MustRemoveNegated(del) == ~del
MustRemoveUnlessCancelled(del) == del /\ ~is_cancelled
MustRemove(del) == del

\* lines 190-192
Finally ==
    /\ pc = "finally"
    /\ IF MustRemove(delete_file_after_upload)
       THEN dir_exists' = FALSE /\ files' = {} /\ rmtree_done' = TRUE
       ELSE UNCHANGED <<dir_exists, files, rmtree_done>>
    /\ pc' = "done"
    /\ UNCHANGED <<inputVars, nameVars, scanVars, splitVars, cancelVars, sendVars,
                   msgVars, exc>>

\* the control surface sets the Process's flag while the upload runs
Cancel ==
    /\ pc \in {"send", "post", "edit_media", "reply"}
    /\ ~is_cancelled
    /\ is_cancelled' = TRUE
    /\ UNCHANGED <<inputVars, nameVars, dirVars, scanVars, splitVars, seen_cancel,
                   sendVars, msgVars, pc, exc, rmtree_done>>

Next ==
    \/ FindMediaEnter \/ ScanMedia \/ SplitStep \/ SplitReturn \/ ScanThumb
    \/ FindMediaReturn
    \/ UploadEnter \/ SendIssue \/ SendReturn \/ PostSend \/ EditMedia
    \/ ReplyBatch \/ FinalEdit \/ Finally \/ Cancel

Init ==
    InitWith({"video", "audio", "gif"}, BOOLEAN,
             Listings({BatchSize, MaxParts}), MaxFaultOrdinal)

\* the same program on a video of 999 parts and on one of BigParts parts,
\* with a transcoder that does not fail
PaddedMax == 10 ^ ZFill - 1
InitBig ==
    InitWith({"video"}, {TRUE},
             {<<File(StemA, "mkv", Times(k), "full", FALSE)>> :
                 k \in {1, PaddedMax, BigParts}}, 0)

Spec == Init /\ [][Next]_vars
SpecBig == InitBig /\ [][Next]_vars

(***************************************************************************)
(* unquote_filename as a function of any path.  A path is its parent (the  *)
(* names of the directories above it) and its name.                        *)
(***************************************************************************)
\* the longest file name given to unquote_filename
MaxNameLen == 3

NameAlphabet == {97} \cup QuoteChars
FileNames == UNION {[1..n -> NameAlphabet] : n \in 1..MaxNameLen}
\* the directories "d" and "d'"
Parents == {<<(<<100>>)>>, <<(<<100, 39>>)>>}

\* PurePath.joinpath: an empty segment is ignored, the result is the
\* directory itself
JoinPath(parent, nm) ==
    IF nm = <<>>
    THEN [parent |-> SubSeq(parent, 1, Len(parent) - 1), name |-> parent[Len(parent)]]
    ELSE [parent |-> parent, name |-> nm]

\* line 35
UnQuotedPath(f) == JoinPath(f.parent, StripQuotes(f.name))
\* file.rename(un_quoted) onto the file's own directory: OSError
OntoDirectory(f, un) == un.parent # f.parent

\* lines 34-39, for the path `f`
Unquote(f) ==
    LET un == UnQuotedPath(f)
    IN IF f.name # un.name
       THEN IF OntoDirectory(f, un)
            THEN /\ pc' = "done" /\ exc' = "OSError"
                 /\ renames' = Append(renames, [call |-> Len(returned) + 1, to |-> un])
                 /\ UNCHANGED <<dir_names, returned>>
            ELSE /\ dir_names' = (dir_names \ {f.name}) \cup {un.name}
                 /\ renames' = Append(renames, [call |-> Len(returned) + 1, to |-> un])
                 /\ returned' = Append(returned, un)
                 /\ pc' = IF returned = <<>> THEN "unquoted" ELSE "done"
                 /\ exc' = exc
       ELSE /\ returned' = Append(returned, f)
            /\ pc' = IF returned = <<>> THEN "unquoted" ELSE "done"
            /\ UNCHANGED <<dir_names, renames, exc>>

mainVars ==
    <<inputVars, dirVars, scanVars, splitVars, cancelVars, sendVars, msgVars,
      rmtree_done>>

\* unquote_filename(filename)
UnquoteFilename ==
    /\ pc = "unquote"
    /\ Unquote(filename)
    /\ UNCHANGED <<mainVars, filename>>

\* unquote_filename of the path the first call returned
UnquoteAgain ==
    /\ pc = "unquoted"
    /\ Unquote(returned[1])
    /\ UNCHANGED <<mainVars, filename>>

NextNames == UnquoteFilename \/ UnquoteAgain

InitNames ==
    /\ media_type = "video" /\ delete_file_after_upload = FALSE /\ flaky = 0
    /\ dir_exists = TRUE /\ listing = <<>> /\ files = {}
    /\ idx = 0 /\ file = NoFile /\ info = EmptyDict
    /\ start = 0 /\ cur_duration = 0 /\ result = <<>> /\ attempts = <<>>
    /\ is_cancelled = FALSE /\ seen_cancel = "unread"
    /\ nums = 0 /\ issued = <<>> /\ inflight = {} /\ uploaded = <<>>
    /\ edits = <<>> /\ uploads = <<>> /\ replies = <<>> /\ new_caption = <<>>
    /\ rmtree_done = FALSE
    /\ pc = "unquote" /\ exc = "none"
    /\ filename \in {[parent |-> d, name |-> n] : d \in Parents, n \in FileNames}
    /\ dir_names \in {{filename.name}, {filename.name, <<97>>}}
    /\ returned = <<>> /\ renames = <<>>

SpecNames == InitNames /\ [][NextNames]_vars

(***************************************************************************)
(* Properties.                                                             *)
(***************************************************************************)
\* upload has entered its try: find_media returned a descriptor
InTry == nums > 0
SplitUpload == InTry /\ IsSplit
AllSent == Len(uploaded) = NParts /\ \A i \in 1..Len(uploaded) : uploaded[i].msg
\* a split upload that sent every part and ended with no error, the flag
\* read false
CompletedSplit ==
    /\ pc = "done" /\ exc = "none"
    /\ SplitUpload /\ NParts >= 2 /\ AllSent
    /\ seen_cancel = "false"
Ascending(q) == \A i \in 1..(Len(q) - 1) : q[i] < q[i + 1]
Padded(q) == \A i \in 1..Len(q) : q[i] <= PaddedMax
RECURSIVE Flat(_)
Flat(qs) == IF qs = <<>> THEN <<>> ELSE Head(qs) \o Flat(Tail(qs))
NoQualifying ==
    \A i \in 1..Len(listing) :
        ~(listing[i].ext \in ExtOf(media_type) /\ listing[i].size # <<0, 0>>)

\* C1: after a split upload of N parts, all sent and not cancelled, the
\* text of the final status-message edit has exactly N lines, line i being
\* "i. <name of part i>" for i = 1..N in send order.
C1_FinalTextListsEveryPart ==
    CompletedSplit =>
        /\ edits # <<>>
        /\ edits[Len(edits)].text
             = [i \in 1..NParts |-> [i |-> i, name |-> PartAt(i)]]

\* C2: after a split upload of N parts, all sent and not cancelled, the
\* batches replied hold at most 10 parts each and together hold every sent
\* part exactly once, in order.
C2_EveryPartInOneBatch ==
    CompletedSplit =>
        /\ \A b \in 1..Len(replies) :
               Len(replies[b]) >= 1 /\ Len(replies[b]) <= BatchSize
        /\ Flat(replies) = [i \in 1..NParts |-> uploaded[i].part]

\* C3: with an existing job directory that holds no qualifying media file
\* of the requested kind, discovery ends without raising.
C3_NothingFoundNoError ==
    (/\ pc = "done"
     /\ media_type \in {"video", "audio"}
     /\ dir_exists
     /\ NoQualifying) => exc = "none"

\* C4 as claimed: the job directory is removed only after the send of every
\* part of the descriptor has returned.
C4_RemovedOnlyAfterAllSent ==
    rmtree_done => Len(uploaded) = NParts

\* C4 as amended: the job directory is removed only when upload's try has
\* been left with no send in flight, every part sent or an exception
\* raised; when the send of a part raises, the parts after it are never
\* sent and the directory is removed if deletion is requested.
C4_RemovedOnlyAfterSendsEnded ==
    /\ rmtree_done =>
          /\ pc = "done" /\ inflight = {}
          /\ Len(uploaded) = NParts \/ exc # "none"
    /\ (pc = "done" /\ exc = "SendError") =>
          /\ Len(uploaded) < NParts
          /\ Len(issued) = Len(uploaded) + 1
          /\ rmtree_done <=> delete_file_after_upload
C4_Witness ==
    /\ pc = "done" /\ exc = "SendError" /\ rmtree_done
    /\ SplitUpload /\ NParts = 3 /\ Len(uploaded) = 1

\* C5: when deletion is requested and discovery returned a descriptor, the
\* job directory is removed on every exit of upload, normal or by an
\* exception of a send or of a message edit.
C5_CleanupOnEveryExit ==
    (pc = "done" /\ InTry /\ delete_file_after_upload) =>
        rmtree_done /\ ~dir_exists /\ files = {}
C5_Witness ==
    /\ pc = "done" /\ exc = "EditError" /\ rmtree_done
    /\ Len(uploaded) = NParts

\* C6 as claimed: when the flag becomes true during a split upload, that
\* invocation does not remove the job directory.
C6_CancelledKeepsDirectory ==
    (SplitUpload /\ is_cancelled) => ~rmtree_done

\* C6 as amended: when the flag becomes true during a split upload, the
\* invocation removes the job directory exactly when deletion is
\* requested, as on any other exit; a flag read as true is read after
\* every part was sent.
C6_CancelledCleansUpAsRequested ==
    (pc = "done" /\ SplitUpload /\ is_cancelled) =>
        /\ rmtree_done <=> delete_file_after_upload
        /\ seen_cancel = "true" => Len(uploaded) = NParts
C6_Witness ==
    /\ pc = "done" /\ SplitUpload /\ NParts = 3
    /\ seen_cancel = "true" /\ rmtree_done

\* C7: from the step in which the flag is read as true, the invocation
\* makes no status-message replacement, no batch reply and no text edit,
\* and what was sent stays sent.
C7_NoEditsOnceCancelSeen ==
    [][seen_cancel' = "true" =>
          /\ edits' = edits /\ replies' = replies
          /\ new_caption' = new_caption
          /\ uploaded' = uploaded /\ issued' = issued]_vars
C7_Witness ==
    /\ pc = "done" /\ seen_cancel = "true"
    /\ media_type = "audio" /\ Len(uploaded) = 1

\* the sends of a split upload are serial and follow the descriptor
SerialSends ==
    /\ Cardinality(inflight) <= 1
    /\ Len(issued) <= NParts
    /\ \A i \in 1..Len(issued) : issued[i] = PartAt(i)
    /\ Len(uploaded) <= Len(issued) /\ Len(issued) <= Len(uploaded) + 1
    /\ inflight # {} =>
          Len(issued) = Len(uploaded) + 1 /\ inflight = {issued[Len(issued)]}
    /\ \A i \in 1..Len(uploaded) : uploaded[i].part = issued[i]

\* C8 as claimed: the parts of a split upload are sent one at a time in
\* ascending ordinal order, and `uploaded` is in that order.
C8_SerialAscendingOrdinals ==
    SplitUpload => SerialSends /\ Ascending(issued)

\* C8 as amended: the parts are sent one at a time in the descriptor's
\* order (the order of their names), `uploaded` is in that order, and the
\* order is ascending in the ordinal when no ordinal exceeds 999.
C8_SerialInDescriptorOrder ==
    SplitUpload => SerialSends /\ (Padded(issued) => Ascending(issued))
C8_Witness ==
    /\ pc = "send" /\ SplitUpload /\ NParts = PaddedMax
    /\ Len(uploaded) = BatchSize /\ inflight # {}

\* the size of the file find_media took as the media file
MediaSize == Lookup(files, info["real_file"]).size

\* C9 as claimed: one threshold T = 1.5 GiB; a video is split iff its size
\* exceeds T.
C9_SplitIffOverSplitSize ==
    (media_type = "video" /\ Has(info, "real_file") /\ Has(info, "is_split")) =>
        (info["is_split"] <=> SizeGT(MediaSize, SplitSize))

\* C9 as amended: a video is split iff its size exceeds 2147000000 bytes
\* (strictly); T = 1.5 GiB is the cap of a part and the divisor of the part
\* count, ceil(S / T); a split video of at most 2T bytes gets exactly 2
\* candidate parts.
C9_SplitIffOverLimit ==
    /\ (media_type = "video" /\ Has(info, "real_file") /\ Has(info, "is_split")) =>
          (info["is_split"] <=> SizeGT(MediaSize, DiscoveryLimit))
    /\ pc = "split" =>
          /\ media_type = "video" /\ SizeGT(MediaSize, DiscoveryLimit)
          /\ start > PartsCount(MediaSize) =>
                /\ Len(attempts) = PartsCount(MediaSize)
                /\ SizeLE(MediaSize, Times(2)) => Len(attempts) = 2
C9_Witness ==
    /\ pc = "split" /\ MediaSize = Plus1(DiscoveryLimit)
    /\ start > PartsCount(MediaSize) /\ Len(attempts) = 2

\* split_video tries the ordinals 1, 2, ... in that order, ceil(S / T) of
\* them when the loop ends
OrdinalsInOrder ==
    pc = "split" =>
        /\ start <= PartsCount(MediaSize) + 1
        /\ [i \in 1..Len(attempts) |-> attempts[i].no] = [i \in 1..(start - 1) |-> i]

\* C10 as claimed: split_video tries ceil(S / T) parts, ordinals 1, 2, ...
\* in that order, and the sequence it returns, sorted by name, is in
\* ascending ordinal order for every part count.
C10_SortedIsOrdinalOrder ==
    /\ OrdinalsInOrder
    /\ (pc = "thumb" /\ Has(info, "is_split") /\ IsSplit) =>
          Ascending(info[media_type])

\* C10 as amended: the same, the returned sequence being in ascending
\* ordinal order when no ordinal exceeds 999 (three digits).
C10_SortedIsOrdinalOrderUpTo999 ==
    /\ OrdinalsInOrder
    /\ (pc = "thumb" /\ Has(info, "is_split") /\ IsSplit
          /\ Padded(info[media_type])) => Ascending(info[media_type])
C10_Witness ==
    /\ pc = "thumb" /\ Has(info, "is_split") /\ IsSplit
    /\ Len(info[media_type]) = PaddedMax

\* find_media has returned a descriptor to upload
Returned == pc = "upload"

\* C11: in every descriptor discovery returns, is_split is true iff the
\* descriptor carries a sequence of more than one part path; and when split,
\* file_name has the length of the part sequence and file_name[i] is the
\* name of part i.
C11_SplitIffSeveralParts ==
    Returned =>
        /\ IsSplit => Len(info[media_type]) > 1
        /\ ~IsSplit => info[media_type] = info["file_name"]
        /\ IsSplit =>
              /\ Len(info["file_name"]) = Len(info[media_type])
              /\ \A i \in 1..Len(info[media_type]) :
                     info["file_name"][i] = info[media_type][i]

\* find_media raised: upload never entered its try
DiscoveryRaised == pc = "done" /\ ~InTry /\ exc # "none"

\* C12: when a qualifying media file exists, discovery raises only for an
\* invalid kind or a missing job directory; a failing enrichment step (no
\* metadata, no duration, no artist or title, album art, photo conversion)
\* leaves its field absent and a descriptor is still returned.
C12_EnrichmentAbsorbed ==
    (DiscoveryRaised /\ ~NoQualifying) =>
        exc \in {"TypeError", "FileNotFoundError"}

AudioFields(d) == Has(d, "performer") \/ Has(d, "title")
Dimensions(d) == Has(d, "width") \/ Has(d, "height") \/ Has(d, "size")

\* C13: a descriptor returned by discovery never has both performer/title
\* and dimensions: an audio descriptor has no dimensions, also when a photo
\* thumbnail supplied a size, and a video descriptor has no performer/title.
C13_KindExclusive ==
    Returned =>
        /\ ~(AudioFields(info) /\ Dimensions(info))
        /\ media_type = "audio" => ~Dimensions(info)
        /\ media_type = "video" => ~AudioFields(info)
C13_Witness ==
    /\ Returned /\ media_type = "audio"
    /\ Has(info, "performer") /\ Has(info, "title")
    /\ ThumbTruthy(info) /\ info["thumb"] = [stem |-> StemC, ext |-> "jpeg"]

QuoteFree(nm) == \A i \in 1..Len(nm) : nm[i] \notin QuoteChars
\* the path given to call number c
ArgOf(c) == IF c = 1 THEN filename ELSE returned[c - 1]

\* C14: for every file name, unquote_filename returns a path; the returned
\* name has no quote character and the directory component is that of the
\* path given; a second call on the returned path returns the same path;
\* and a call on a quote-free name renames nothing.
C14_UnquoteIdempotent ==
    /\ exc = "none"
    /\ \A c \in 1..Len(returned) :
          /\ QuoteFree(returned[c].name)
          /\ returned[c].parent = filename.parent
    /\ Len(returned) = 2 => returned[2] = returned[1]
    /\ \A r \in 1..Len(renames) : ~QuoteFree(ArgOf(renames[r].call).name)

\* an unsplit upload that ended with no error, its one send returned
UnsplitEnded ==
    /\ pc = "done" /\ exc = "none"
    /\ InTry /\ ~IsSplit /\ Len(uploaded) = 1

\* C15: after a successful send of an unsplit item, the flag read false,
\* the status message is replaced exactly once with the media of the
\* message sent, reply_markup = None, and there is no batch reply and no
\* text edit; when the send returned no message nothing is replaced.
C15_UnsplitReplacedOnce ==
    UnsplitEnded =>
        /\ (uploaded[1].msg /\ seen_cancel = "false") =>
              /\ Len(edits) = 1
              /\ edits[1].op = "edit_media"
              /\ edits[1].media \in {media_type, "document"}
              /\ edits[1].reply_markup = "none"
        /\ ~uploaded[1].msg => edits = <<>>
        /\ replies = <<>> /\ new_caption = <<>>

\* the ordinals tried so far whose transcode exited 0 with an output file
Succeeded == {attempts[i].no : i \in {j \in 1..Len(attempts) :
                                        attempts[j].rc = 0 /\ attempts[j].exists}}
SplitLoopEnded == pc = "split" /\ start > PartsCount(MediaSize)

\* C16: in split_video a part whose transcode fails (non-zero exit or no
\* output file) is not in the result and does not end the loop: every
\* ordinal up to the part count is tried, and the result returned holds
\* exactly the parts whose transcode exited 0 with an existing output file.
C16_FailedPartsOmitted ==
    /\ [](pc = "split" =>
            /\ Len(attempts) = start - 1
            /\ \A i \in 1..Len(attempts) : attempts[i].no = i
            /\ Range(result) = Succeeded
            /\ Len(result) = Cardinality(Succeeded))
    /\ [][(pc = "split" /\ pc' = "thumb") =>
            /\ Len(attempts) = PartsCount(MediaSize)
            /\ Range(info'[media_type]) = Succeeded
            /\ Len(info'[media_type]) = Cardinality(Succeeded)]_vars
C16_Witness ==
    /\ SplitLoopEnded /\ Len(attempts) = BatchSize
    /\ attempts[1].rc = 0 /\ ~attempts[1].exists
    /\ attempts[2].rc # 0
    /\ result = [i \in 1..(BatchSize - 2) |-> i + 2]

\* the sum of the probed durations of the successful attempts among the
\* first n
RECURSIVE EmittedDuration(_)
EmittedDuration(n) ==
    IF n = 0 THEN 0
    ELSE EmittedDuration(n - 1)
           + (IF attempts[n].rc = 0 /\ attempts[n].exists
              THEN attempts[n].dur ELSE 0)

\* C17: in split_video the seek offset given to the transcoder for part k
\* is the sum of the probed durations of the parts before k that are in
\* the result: the running offset advances by a part's probed duration
\* only when that part succeeded.
C17_OffsetAdvancesOnSuccessOnly ==
    pc = "split" =>
        /\ cur_duration = EmittedDuration(Len(attempts))
        /\ \A k \in 1..Len(attempts) : attempts[k].ss = EmittedDuration(k - 1)

\* C18: the duration of a split descriptor is the duration of its first
\* part, not of the original file; it is the duration every part is sent
\* with and the one the frame-capture timestamp (duration // 2) comes from.
C18_DurationOfFirstPart ==
    (InTry /\ IsSplit /\ Has(info, "duration") /\ info[media_type] # <<>>) =>
        info["duration"].part = info[media_type][1]

\* C19: cancellation never preempts or skips a send.  The flag is read at
\* most once, and only when the send loop has finished; in a split upload
\* of M parts that ends without an error all M sends were issued and the
\* flag was read, whenever the flag was set; and a flag set after it was
\* read as false does not stop the batch replies and the final edit.
C19_CancelNeverSkipsSend ==
    /\ [][seen_cancel' # seen_cancel =>
            /\ seen_cancel = "unread" /\ pc = "post"
            /\ inflight = {}
            /\ Len(issued) = NParts /\ Len(uploaded) = NParts]_vars
    /\ [][(pc = "send" /\ pc' # "send") =>
            (exc' # "none" \/ Len(uploaded') = NParts)]_vars
    /\ []((SplitUpload /\ pc = "done" /\ exc = "none") =>
            /\ Len(issued) = NParts
            /\ NParts >= 1 => seen_cancel # "unread"
            /\ seen_cancel = "false" =>
                  /\ Len(replies) = NParts \div BatchSize
                  /\ Len(edits) = 2 /\ edits[2].op = "edit")
C19_Witness ==
    /\ pc = "done" /\ exc = "none"
    /\ SplitUpload /\ NParts = BatchSize
    /\ is_cancelled /\ seen_cancel = "false"
    /\ Len(replies) = 1 /\ Len(edits) = 2

\* the entries of the listing that qualify as the media file, and the
\* first of them
Qualifies(i) ==
    listing[i].ext \in ExtOf(media_type) /\ listing[i].size # <<0, 0>>
FirstQualifying ==
    listing[CHOOSE i \in 1..Len(listing) :
                Qualifies(i) /\ \A j \in 1..(i - 1) : ~Qualifies(j)]
Scanning == pc \in {"scan", "split", "thumb", "enrich"}

\* C20: discovery selects at most one media file per scan, the first
\* non-empty file with a matching extension in iteration order; once a file
\* is selected no later file is sanitized, split or put in its place, also
\* when the split of the selected file gave no parts; and the scan stops as
\* soon as a media file and a thumbnail are both found.
C20_FirstQualifyingOnly ==
    /\ []((Scanning /\ Has(info, "real_file")) =>
            info["real_file"] = Unquoted(NameOf(FirstQualifying)))
    /\ [][(Scanning /\ Has(info, "real_file") /\ pc = "scan") =>
            /\ pc' # "split"
            /\ info'["real_file"] = info["real_file"]
            /\ files' = files]_vars
    /\ [](pc = "scan" => ~(Has(info, media_type) /\ Has(info, "thumb")))

\* C21: sanitizing the selected file's name destroys no other file: every
\* other file of the job directory is still there with its own content
\* after unquote_filename returns, and the number of files is unchanged.
C21_SanitizeKeepsOtherFiles ==
    [][pc = "scan" =>
          /\ Cardinality(files') = Cardinality(files)
          /\ \A f \in files :
                 NameOf(f) # NameOf(listing[idx]) => f \in files']_vars
=============================================================================
